---- MODULE Spec2Model ----
(***************************************************************************)
(* A model of scripts/prepare_piano_assets.py: the procedural impulse      *)
(* response generator (generate_ir), the placeholder note generator        *)
(* (generate_placeholder_note), the 16-bit PCM writers (write_wav_mono,    *)
(* write_wav_stereo), ensure_placeholder_or_convert and the root loop of   *)
(* main.                                                                   *)
(*                                                                         *)
(* Numbers.  Durations of presets are kept in milliseconds, reflection     *)
(* levels in hundredths, samples handed to the encoder in thousandths,     *)
(* requested note durations in ticks of 1/1024 s (dyadic, so that the      *)
(* floating-point product sr*length of the source is exact and int() of    *)
(* it is the integer truncation computed here).  For the literals of the   *)
(* presets (0.9, 1.5, 2.6, 4.2, 1.8 s; delays 5..97 ms; 0.01 and 0.02 s)   *)
(* and the sample rates used here the floating-point products of the       *)
(* source truncate to the same integers as the exact products.             *)
(*                                                                         *)
(* Sample values that come out of sin, exp and the Mersenne Twister are    *)
(* kept symbolically: a buffer records what determines each sample (the    *)
(* accumulated early reflections, the seed of the noise stream and the     *)
(* number of draws taken, the fade factor), and two buffers are            *)
(* bit-identical exactly when these agree.                                 *)
(***************************************************************************)
EXTENDS Integers, Sequences, FiniteSets, TLC

VARIABLES
  hashSalt,  \* the str-hash salt of the running interpreter
  proc,      \* the number of the running process
  ir,        \* the generate_ir call in progress
  irOut,     \* what the calls of generate_ir returned, in order
  note,      \* the placeholder request in progress
  wr,        \* the write_wav_* / ensure_placeholder_or_convert call in progress
  fs,        \* the files on disk
  th,        \* the synthesis calls of the concurrent threads
  streams,   \* the random streams of the concurrent threads
  mn         \* main: its arguments, its loop and its manifest

\* ------------------------------------------------------------------------
\* Arithmetic helpers
\* ------------------------------------------------------------------------

Min(a, b) == IF a <= b THEN a ELSE b

Max(a, b) == IF a >= b THEN a ELSE b

\* The usual mistake in place of int(): rounding to the nearest integer.
RoundNearest(num, den) == (2 * num + den) \div (2 * den)

\* int(x) of Python for x = num/den, den > 0: truncation toward zero.
PyInt(num, den) == IF num >= 0 THEN num \div den ELSE -((-num) \div den)

\* round(x) of Python for x = num/den >= 0: to nearest, ties to even.
PyRound(num, den) ==
  LET q == num \div den
      r == num - q * den
  IN  IF 2 * r < den THEN q
      ELSE IF 2 * r > den THEN q + 1
      ELSE IF q % 2 = 0 THEN q ELSE q + 1

\* ------------------------------------------------------------------------
\* generate_ir
\* ------------------------------------------------------------------------

\* Default sample rate of every generator and writer.
SR == 44100

\* A reduced rate, passed as the sr parameter, at which loops are stepped.
LowRate == 100

SampleRates == {SR, LowRate}

PresetNames == {"studio", "medium-room", "hall", "cathedral", "plate"}

\* Names that are not presets (ensure_impulse strips ".wav" from any filename).
OtherNames == {"cave", "yomedium-room"}

IrNames == PresetNames \cup OtherNames

\* seconds in ms; decay and hf_decay in hundredths; early = <<delay ms, level in hundredths>>.
presets ==
  [n \in PresetNames |->
     CASE n = "studio"      -> [decay |-> 90,  seconds |-> 900,  hf_decay |-> 70,
                                early |-> <<<<6, 60>>, <<11, 40>>>>]
       [] n = "medium-room" -> [decay |-> 120, seconds |-> 1500, hf_decay |-> 60,
                                early |-> <<<<7, 70>>, <<13, 50>>, <<23, 35>>>>]
       [] n = "hall"        -> [decay |-> 180, seconds |-> 2600, hf_decay |-> 55,
                                early |-> <<<<9, 80>>, <<17, 60>>, <<31, 45>>, <<47, 30>>>>]
       [] n = "cathedral"   -> [decay |-> 250, seconds |-> 4200, hf_decay |-> 50,
                                early |-> <<<<12, 90>>, <<23, 70>>, <<41, 55>>, <<73, 35>>, <<97, 25>>>>]
       [] n = "plate"       -> [decay |-> 160, seconds |-> 1800, hf_decay |-> 75,
                                early |-> <<<<5, 95>>, <<11, 75>>, <<19, 55>>, <<29, 35>>>>]]

\* presets.get(name, presets['medium-room'])
PresetGet(name) == IF name \in PresetNames THEN presets[name] ELSE presets["medium-room"]

\* A sample rate divided before it is multiplied: the integer-division slip.
IrLengthDivFirst(sr, ms) == (sr \div 1000) * ms

\* N = int(sr * p['seconds'])
IrLength(sr, ms) == PyInt(sr * ms, 1000)

\* The offset rounded to the nearest sample instead of truncated.
ErOffsetRounded(sr, delay_ms) == RoundNearest(sr * delay_ms, 1000)

\* off = int(sr * (delay_ms/1000.0))
ErOffset(sr, delay_ms) == PyInt(sr * delay_ms, 1000)

\* nr[max(0, off-1)]
ErRightIndex(off) == Max(0, off - 1)

\* Number of process runs observed, and of str-hash salts a run may start with.
MaxRuns == 2

NumSalts == 2

\* Calls to generate_ir recorded over the runs.
MaxIrCalls == 2

\* A code for each name, distinct per name.
NameCode(name) ==
  CASE name = "studio" -> 1 [] name = "medium-room" -> 2 [] name = "hall" -> 3
    [] name = "cathedral" -> 4 [] name = "plate" -> 5 [] name = "cave" -> 6
    [] OTHER -> 7

\* hash(name) of a str: a function of the name and of the salt the interpreter
\* draws when the process starts (PYTHONHASHSEED unset); distinct names, and
\* distinct salts, give distinct values.
StrHash(salt, name) == salt * (Cardinality(IrNames) + 1) + NameCode(name)

IrBaseSeed == 1337

\* random.Random(1337 + hash(name))
IrSeed(salt, name) == IrBaseSeed + StrHash(salt, name)

\* [0.0]*N, kept sparsely: the length and the indices that hold a nonzero sum.
Zeros(N) == [n |-> N, at |-> [j \in {} |-> 0]]

\* buf[j] += v
AddAt(buf, j, v) ==
  [buf EXCEPT !.at = [x \in DOMAIN buf.at \cup {j} |->
                        (IF x \in DOMAIN buf.at THEN buf.at[x] ELSE 0) + (IF x = j THEN v ELSE 0)]]

\* buf[j]
ValueAt(buf, j) == IF j \in DOMAIN buf.at THEN buf.at[j] ELSE 0

\* for i in range(int(sr*0.01))
IrFadeLength(sr) == PyInt(sr, 100)

irVars == <<hashSalt, proc, ir, irOut>>

notIrVars == <<note, wr, fs, th, streams, mn>>

IrIdle == [pc |-> "idle"]

\* The parts of the program a specification leaves out stay as they start.
Unused == [pc |-> "unused"]

IrUnused == hashSalt = 0 /\ proc = 0 /\ ir = Unused /\ irOut = <<>>

NoteUnused == note = Unused

WriterUnused == wr = Unused /\ fs = Unused

ThreadsUnused == th = Unused /\ streams = Unused

MainUnused == mn = Unused

IrInit ==
  /\ hashSalt \in 0 .. NumSalts - 1
  /\ proc = 1
  /\ ir = IrIdle
  /\ irOut = <<>>

\* A new run of the script: the interpreter draws a new str-hash salt.
process_start ==
  /\ ir.pc = "idle"
  /\ proc < MaxRuns
  /\ \E s \in 0 .. NumSalts - 1 : hashSalt' = s
  /\ proc' = proc + 1
  /\ UNCHANGED <<ir, irOut>>
  /\ UNCHANGED notIrVars

\* generate_ir(name, sr): preset lookup and the two zeroed buffers.
generate_ir_call ==
  /\ ir.pc = "idle"
  /\ Len(irOut) < MaxIrCalls
  /\ \E name \in IrNames, sr \in SampleRates :
       LET p == PresetGet(name)
           N == IrLength(sr, p.seconds)
       IN  ir' = [pc |-> "early", name |-> name, sr |-> sr, p |-> p, N |-> N,
                  nl |-> Zeros(N), nr |-> Zeros(N), k |-> 1]
  /\ UNCHANGED <<hashSalt, proc, irOut>>
  /\ UNCHANGED notIrVars

\* One iteration of "for delay_ms, level in p['early']".
generate_ir_early ==
  /\ ir.pc = "early"
  /\ ir.k <= Len(ir.p.early)
  /\ LET delay_ms == ir.p.early[ir.k][1]
         level    == ir.p.early[ir.k][2]
         off      == ErOffset(ir.sr, delay_ms)
     IN  ir' = IF off < ir.N
               THEN [ir EXCEPT !.nl = AddAt(ir.nl, off, level * 100),
                               !.nr = AddAt(ir.nr, ErRightIndex(off), level * 98),
                               !.k = ir.k + 1]
               ELSE [ir EXCEPT !.k = ir.k + 1]
  /\ UNCHANGED <<hashSalt, proc, irOut>>
  /\ UNCHANGED notIrVars

\* The early loop is over: the noise stream is seeded and the tail is added to
\* every index of both buffers.
generate_ir_tail ==
  /\ ir.pc = "early"
  /\ ir.k > Len(ir.p.early)
  /\ ir' = [pc |-> "fade", name |-> ir.name, sr |-> ir.sr, N |-> ir.N,
            nl |-> ir.nl, nr |-> ir.nr,
            tail |-> [seed |-> IrSeed(hashSalt, ir.name), decay |-> ir.p.decay,
                      hf |-> ir.p.hf_decay, draws |-> 2 * ir.N]]
  /\ UNCHANGED <<hashSalt, proc, irOut>>
  /\ UNCHANGED notIrVars

\* The 10 ms fades at both ends, and the return of (nl, nr).
generate_ir_return ==
  /\ ir.pc = "fade"
  /\ irOut' = Append(irOut,
       [name |-> ir.name, sr |-> ir.sr, proc |-> proc,
        L |-> [n |-> ir.N, er |-> ir.nl.at, tail |-> ir.tail, chan |-> "L",
               fade |-> IrFadeLength(ir.sr)],
        R |-> [n |-> ir.N, er |-> ir.nr.at, tail |-> ir.tail, chan |-> "R",
               fade |-> IrFadeLength(ir.sr)]])
  /\ ir' = IrIdle
  /\ UNCHANGED <<hashSalt, proc>>
  /\ UNCHANGED notIrVars

IrNext ==
  \/ process_start
  \/ generate_ir_call
  \/ generate_ir_early
  \/ generate_ir_tail
  \/ generate_ir_return

vars == <<hashSalt, proc, ir, irOut, note, wr, fs, th, streams, mn>>

InitIR == IrInit /\ NoteUnused /\ WriterUnused /\ ThreadsUnused /\ MainUnused

SpecIR == InitIR /\ [][IrNext]_vars

\* ------------------------------------------------------------------------
\* generate_placeholder_note, as ensure_placeholder_or_convert calls it
\* ------------------------------------------------------------------------

\* Requested durations are counted in ticks of 1/1024 s.
TicksPerSecond == 1024

\* min(4.5, length_sec): 4.5 s in ticks.
NoteCap == 4608

\* MIDI pitches requested.
NoteMidis == {0, 60, 127}

\* Requested durations (--length is any float; the default 6.0 s is 6144 ticks).
NoteLengths == {-1024, 0, 1, 20, 21, 23, 1024, 4607, 4608, 4609, 6144}

\* length=min(4.5, length_sec)
PlaceholderLength(length_sec) == Min(NoteCap, length_sec)

\* The length rounded to the nearest sample instead of truncated.
NoteSamplesRounded(sr, length) == RoundNearest(sr * length, TicksPerSecond)

\* N = int(sr*length)
NoteSamples(sr, length) == PyInt(sr * length, TicksPerSecond)

\* len([0.0]*N): a list multiplied by a negative number is empty.
ListLength(N) == Max(0, N)

\* int(sr*0.02)
NoteFadeLength(sr) == PyInt(sr * 2, 100)

\* int(0.01*sr): the samples that take a draw of hammer noise.
NoteHammerLength(sr) == PyInt(sr, 100)

NoteBaseSeed == 2025

noteVars == <<note>>

notNoteVars == <<hashSalt, proc, ir, irOut, wr, fs, th, streams, mn>>

NoteIdle == [pc |-> "idle"]

NoteInit == note = NoteIdle

\* Line 320: y = generate_placeholder_note(midi, length=min(4.5, length_sec)),
\* up to y = [0.0]*N and the seeding of the stream.
placeholder_request ==
  /\ note.pc = "idle"
  /\ \E midi \in NoteMidis, length_sec \in NoteLengths :
       LET length == PlaceholderLength(length_sec)
           N == NoteSamples(SR, length)
       IN  note' = [pc |-> "render", midi |-> midi, requested |-> length_sec,
                    length |-> length, sr |-> SR, N |-> N,
                    y |-> [n |-> ListLength(N), rendered |-> 0, seed |-> NoteBaseSeed + midi,
                           draws |-> 0, gain |-> [j \in {} |-> 0]],
                    i |-> 0, outcome |-> "running"]
  /\ UNCHANGED notNoteVars

\* The loop "for i in range(N)": every sample is set to val * env, the first
\* int(0.01*sr) of them with one draw of the stream each.
placeholder_render ==
  /\ note.pc = "render"
  /\ note' = [note EXCEPT !.pc = "fade",
                          !.y.rendered = note.y.n,
                          !.y.draws = Min(note.y.n, NoteHammerLength(note.sr)),
                          !.i = 0]
  /\ UNCHANGED notNoteVars

\* One iteration of the fade loop: y[-i-1] *= i/(sr*0.02).  A negative index
\* below -len(y) raises IndexError.
placeholder_fade ==
  /\ note.pc = "fade"
  /\ note.i < NoteFadeLength(note.sr)
  /\ note' = IF note.i + 1 > note.y.n
             THEN [note EXCEPT !.pc = "done", !.outcome = "IndexError"]
             ELSE [note EXCEPT !.y.gain = [j \in DOMAIN note.y.gain \cup {note.y.n - note.i - 1} |->
                                             IF j = note.y.n - note.i - 1 THEN note.i
                                             ELSE note.y.gain[j]],
                               !.i = note.i + 1]
  /\ UNCHANGED notNoteVars

\* return y
placeholder_return ==
  /\ note.pc = "fade"
  /\ note.i >= NoteFadeLength(note.sr)
  /\ note' = [note EXCEPT !.pc = "done", !.outcome = "returned"]
  /\ UNCHANGED notNoteVars

\* The caller goes on to its next root.
placeholder_next ==
  /\ note.pc = "done"
  /\ note' = NoteIdle
  /\ UNCHANGED notNoteVars

NoteNext ==
  \/ placeholder_request
  \/ placeholder_render
  \/ placeholder_fade
  \/ placeholder_return
  \/ placeholder_next

InitNote == NoteInit /\ IrUnused /\ WriterUnused /\ ThreadsUnused /\ MainUnused

SpecNote == InitNote /\ [][NoteNext]_vars

\* The fade factor's numerator of sample j of the returned buffer: i for the
\* sample the fade reached at step i, the full sr*0.02 for an untouched one.
NoteGain(y, sr, j) == IF j \in DOMAIN y.gain THEN y.gain[j] ELSE NoteFadeLength(sr)

\* ------------------------------------------------------------------------
\* Properties of generate_placeholder_note
\* ------------------------------------------------------------------------

\* C3: for every pitch and every positive requested duration the synthesis
\* returns normally and the final sample of its buffer is exactly 0.0.
C3_ReturnsWithZeroFinalSample ==
  (note.pc = "done" /\ note.requested > 0) =>
    /\ note.outcome = "returned"
    /\ note.y.n > 0
    /\ NoteGain(note.y, note.sr, note.y.n - 1) = 0

\* What does hold: a buffer of at least int(sr*0.02) samples is returned with
\* a final sample of zero and an untouched sample before the fade window.
C3_ZeroFinalSampleWhenLongEnough ==
  (note.pc = "done" /\ note.N >= NoteFadeLength(note.sr)) =>
    /\ note.outcome = "returned"
    /\ NoteGain(note.y, note.sr, note.y.n - 1) = 0
    /\ DOMAIN note.y.gain = (note.y.n - NoteFadeLength(note.sr)) .. (note.y.n - 1)

\* C4: the buffer rendered for a requested duration d has round(44100 * 4.5)
\* samples when d >= 4.5 s and round(44100 * d) samples when d < 4.5 s.
C4_LengthRounded ==
  (note.pc = "done" /\ note.outcome = "returned" /\ note.requested > 0) =>
    note.y.n = IF note.requested >= NoteCap
               THEN PyRound(SR * NoteCap, TicksPerSecond)
               ELSE PyRound(SR * note.requested, TicksPerSecond)

\* C4 amended: the buffer allocated for a requested duration d, and returned
\* if the call returns, has exactly int(44100 * min(d, 4.5)) samples, the
\* product truncated, not rounded: n <= 44100 * min(d, 4.5) < n + 1 (and no
\* sample at all for d <= 0).
C4_LengthTruncated ==
  note.pc \in {"render", "fade", "done"} =>
    LET d == IF note.requested >= NoteCap THEN NoteCap ELSE note.requested
    IN  /\ d >= 0 => /\ note.y.n * TicksPerSecond <= SR * d
                     /\ SR * d < (note.y.n + 1) * TicksPerSecond
        /\ d < 0 => note.y.n = 0
        /\ note.requested >= NoteCap => note.y.n = 198450

\* A duration below the cap whose product has a fraction above one half is
\* returned truncated: 4607/1024 s gives 198406 samples (198406.9...).
C4_Witness ==
  /\ note.pc = "done" /\ note.outcome = "returned"
  /\ note.requested = 4607 /\ note.y.n = 198406

\* A duration above the cap is returned with the 4.5 s length.
C4_CapReached ==
  /\ note.pc = "done" /\ note.outcome = "returned"
  /\ note.requested = 6144 /\ note.y.n = 198450

\* ------------------------------------------------------------------------
\* write_wav_mono, write_wav_stereo and the placeholder branch of
\* ensure_placeholder_or_convert
\* ------------------------------------------------------------------------

\* Samples handed to the writers, in thousandths: in range and out of range.
WavSamples == {-1500, -500, 0, 999, 2000}

\* The longest buffer handed to a writer.
MaxFrames == 2

WavBuffers == UNION { [1 .. n -> WavSamples] : n \in 0 .. MaxFrames }

\* max(-1, min(1, x)), x in thousandths.
Clamp(x) == Max(-1000, Min(1000, x))

\* The scale factor of the 16-bit quantisation.
FullScale == 32767

\* Quantisation by floor instead of truncation toward zero.
SampleToIntFloor(x) == (Clamp(x) * FullScale) \div 1000

\* int(max(-1, min(1, x)) * 32767)
SampleToInt(x) == PyInt(Clamp(x) * FullScale, 1000)

\* struct.pack('<h', v) accepts v in -32768 .. 32767 and raises struct.error otherwise.
PackFits(v) == v >= -32768 /\ v <= 32767

WavPath == "out.wav"

Mp3Path == "out.mp3"

WavPaths == {WavPath, Mp3Path}

Absent == [exists |-> FALSE]

writerVars == <<wr, fs>>

notWriterVars == <<hashSalt, proc, ir, irOut, note, th, streams, mn>>

WriterIdle == [pc |-> "idle"]

WriterInit ==
  /\ wr = WriterIdle
  /\ fs = [p \in WavPaths |-> Absent]

\* write_wav_stereo(path, dataL, dataR)
write_wav_stereo_call ==
  /\ wr.pc = "idle"
  /\ \E dataL \in WavBuffers, dataR \in WavBuffers :
       wr' = [pc |-> "open", op |-> "stereo", path |-> WavPath, dst |-> WavPath,
              fmt |-> "wav", nchannels |-> 2, dataL |-> dataL, dataR |-> dataR,
              i |-> 1, frames |-> <<>>, outcome |-> "running"]
  /\ UNCHANGED fs
  /\ UNCHANGED notWriterVars

\* write_wav_mono(path, data)
write_wav_mono_call ==
  /\ wr.pc = "idle"
  /\ \E data \in WavBuffers :
       wr' = [pc |-> "open", op |-> "mono", path |-> WavPath, dst |-> WavPath,
              fmt |-> "wav", nchannels |-> 1, dataL |-> data, dataR |-> <<>>,
              i |-> 1, frames |-> <<>>, outcome |-> "running"]
  /\ UNCHANGED fs
  /\ UNCHANGED notWriterVars

\* ensure_placeholder_or_convert({}, dst, midi, out_format, length_sec), from
\* tmp_wav = dst_path.with_suffix('.wav') to the call of write_wav_mono(tmp_wav, y);
\* y is what generate_placeholder_note returned.
ensure_placeholder_call ==
  /\ wr.pc = "idle"
  /\ \E y \in WavBuffers, out_format \in {"mp3", "wav"} :
       wr' = [pc |-> "open", op |-> "placeholder", path |-> WavPath,
              dst |-> IF out_format = "wav" THEN WavPath ELSE Mp3Path,
              fmt |-> out_format, nchannels |-> 1, dataL |-> y, dataR |-> <<>>,
              i |-> 1, frames |-> <<>>, outcome |-> "running"]
  /\ UNCHANGED fs
  /\ UNCHANGED notWriterVars

\* ensure_dir(path.parent) and wave.open(str(path), 'wb') succeed: the file is
\* created, empty.
wave_open ==
  /\ wr.pc = "open"
  /\ fs' = [fs EXCEPT ![wr.path] = [exists |-> TRUE, nchannels |-> wr.nchannels,
                                    frames |-> <<>>, closed |-> FALSE]]
  /\ wr' = [wr EXCEPT !.pc = "convert"]
  /\ UNCHANGED notWriterVars

\* ensure_dir or wave.open raises OSError: nothing is created, the error
\* propagates to the caller.
wave_open_fails ==
  /\ wr.pc = "open"
  /\ wr' = [wr EXCEPT !.pc = "done", !.outcome = "OSError"]
  /\ UNCHANGED fs
  /\ UNCHANGED notWriterVars

\* The file as the with statement leaves it when its body raises: closed, with
\* a header and the frames written so far (none: writeframes comes last).
ClosedEmpty(f) == [f EXCEPT !.closed = TRUE]

\* One iteration of "for i in range(len(dataL))" (len(data) for mono).
convert_frame ==
  /\ wr.pc = "convert"
  /\ wr.i <= Len(wr.dataL)
  /\ IF wr.nchannels = 2 /\ wr.i > Len(wr.dataR)
     THEN \* dataR[i]: IndexError
          /\ wr' = [wr EXCEPT !.pc = "done", !.outcome = "IndexError"]
          /\ fs' = [fs EXCEPT ![wr.path] = ClosedEmpty(fs[wr.path])]
     ELSE LET L == SampleToInt(wr.dataL[wr.i])
              R == IF wr.nchannels = 2 THEN SampleToInt(wr.dataR[wr.i]) ELSE 0
              frame == IF wr.nchannels = 2 THEN <<L, R>> ELSE <<L>>
          IN  IF PackFits(L) /\ PackFits(R)
              THEN /\ wr' = [wr EXCEPT !.frames = Append(wr.frames, frame), !.i = wr.i + 1]
                   /\ UNCHANGED fs
              ELSE /\ wr' = [wr EXCEPT !.pc = "done", !.outcome = "struct.error"]
                   /\ fs' = [fs EXCEPT ![wr.path] = ClosedEmpty(fs[wr.path])]
  /\ UNCHANGED notWriterVars

\* w.writeframes(frames) and the close at the end of the with statement.  The
\* writers return; ensure_placeholder_or_convert returns True for wav (dst is
\* the file just written) and goes on to transcode for mp3.
writeframes_close ==
  /\ wr.pc = "convert"
  /\ wr.i > Len(wr.dataL)
  /\ fs' = [fs EXCEPT ![wr.path] = [exists |-> TRUE, nchannels |-> wr.nchannels,
                                    frames |-> wr.frames, closed |-> TRUE]]
  /\ wr' = IF wr.op = "placeholder" /\ wr.fmt # "wav"
           THEN [wr EXCEPT !.pc = "transcode"]
           ELSE [wr EXCEPT !.pc = "done", !.outcome = "ok"]
  /\ UNCHANGED notWriterVars

\* convert_with_ffmpeg(tmp_wav, dst_path, ...) succeeds; tmp_wav.unlink(); return True.
transcode_ok ==
  /\ wr.pc = "transcode"
  /\ fs' = [fs EXCEPT ![wr.dst] = [exists |-> TRUE, nchannels |-> 1,
                                   frames |-> fs[wr.path].frames, closed |-> TRUE],
                      ![wr.path] = Absent]
  /\ wr' = [wr EXCEPT !.pc = "done", !.outcome = "ok"]
  /\ UNCHANGED notWriterVars

\* convert_with_ffmpeg raises: the except clause returns False; tmp_wav is not
\* unlinked.
transcode_fails ==
  /\ wr.pc = "transcode"
  /\ wr' = [wr EXCEPT !.pc = "done", !.outcome = "transcode failed"]
  /\ UNCHANGED fs
  /\ UNCHANGED notWriterVars

WriterNext ==
  \/ write_wav_stereo_call
  \/ write_wav_mono_call
  \/ ensure_placeholder_call
  \/ wave_open
  \/ wave_open_fails
  \/ convert_frame
  \/ writeframes_close
  \/ transcode_ok
  \/ transcode_fails

InitWriter == WriterInit /\ IrUnused /\ NoteUnused /\ ThreadsUnused /\ MainUnused

SpecWriter == InitWriter /\ [][WriterNext]_vars

\* ------------------------------------------------------------------------
\* Properties of the writers
\* ------------------------------------------------------------------------

\* C5: a writer call (or the placeholder branch that uses one) either writes
\* a complete file holding every frame of the buffer, or fails and leaves no
\* file on disk: no truncated, empty or temporary WAV file remains.
C5_NoPartialFiles ==
  wr.pc = "done" =>
    \/ /\ wr.outcome = "ok"
       /\ fs[wr.dst].exists /\ fs[wr.dst].closed
       /\ Len(fs[wr.dst].frames) = Len(wr.dataL)
       /\ \A p \in WavPaths \ {wr.dst} : ~fs[p].exists
    \/ /\ wr.outcome # "ok"
       /\ \A p \in WavPaths : ~fs[p].exists

\* The same for the placeholder branch alone: a failed transcode leaves the
\* temporary WAV file behind.
C5_NoTempWavAfterFailedTranscode ==
  (wr.pc = "done" /\ wr.op = "placeholder" /\ wr.outcome = "transcode failed") =>
    ~fs[WavPath].exists

\* What does hold: a call whose directory or file cannot be opened leaves
\* nothing, and a call that succeeds leaves exactly the complete target.
C5_OpenFailureLeavesNothing ==
  wr.pc = "done" =>
    /\ wr.outcome = "OSError" => \A p \in WavPaths : ~fs[p].exists
    /\ wr.outcome = "ok" =>
         /\ fs[wr.dst].exists /\ fs[wr.dst].closed
         /\ Len(fs[wr.dst].frames) = Len(wr.dataL)
         /\ \A p \in WavPaths \ {wr.dst} : ~fs[p].exists

\* v = trunc(clamp(x, -1, 1) * 32767), x in thousandths, said without division.
C6_IsQuantised(x, v) ==
  LET c == IF x < -1000 THEN -1000 ELSE IF x > 1000 THEN 1000 ELSE x
  IN  /\ v >= -32767 /\ v <= 32767
      /\ c >= 0 => (v * 1000 <= c * 32767 /\ c * 32767 < (v + 1) * 1000)
      /\ c < 0  => ((v - 1) * 1000 < c * 32767 /\ c * 32767 <= v * 1000)

\* C6: every sample, in range or not, is written as
\* trunc(clamp(x, -1, 1) * 32767), a value in [-32767, 32767]; no sample makes
\* the 16-bit packing fail; and a finished file has one frame per buffer
\* index, left then right for stereo.
C6_ClampedTruncatedFrames ==
  /\ wr.pc # "idle" => wr.outcome # "struct.error"
  /\ wr.pc \in {"convert", "transcode", "done"} =>
       \A k \in DOMAIN wr.frames :
         /\ Len(wr.frames[k]) = wr.nchannels
         /\ C6_IsQuantised(wr.dataL[k], wr.frames[k][1])
         /\ wr.nchannels = 2 => C6_IsQuantised(wr.dataR[k], wr.frames[k][2])
  /\ (wr.pc = "done" /\ wr.outcome = "ok" /\ wr.fmt = "wav") =>
       /\ fs[wr.path].frames = wr.frames
       /\ fs[wr.path].nchannels = wr.nchannels
       /\ Len(fs[wr.path].frames) = Len(wr.dataL)

\* A stereo file has been written from a negative sample with a fractional
\* product (-0.5 -> -16383) and an out-of-range one (2.0 -> 32767).
C6_Witness ==
  /\ wr.pc = "done" /\ wr.outcome = "ok" /\ wr.op = "stereo"
  /\ wr.dataL = <<-500, -1500>> /\ wr.dataR = <<2000, 999>>
  /\ fs[WavPath].frames = <<<<-16383, 32767>>, <<-32767, 32734>>>>

\* ------------------------------------------------------------------------
\* Two synthesis calls running in two threads of one process
\* ------------------------------------------------------------------------

Threads == {1, 2}

\* The calls a thread may make, all at the reduced rate: generate_ir(name, sr)
\* and generate_placeholder_note(midi, length, sr), length in ticks.
ConcJobs ==
  [kind : {"ir"}, name : {"studio", "cave"}, sr : {LowRate}]
    \cup [kind : {"note"}, midi : {60, 61}, length : {11, 52}, sr : {LowRate}]

\* Every call draws from the one process-wide stream of the random module.
StreamShared(t) == 0

\* rnd = random.Random(seed): the stream a call draws from is an object of its
\* own, here named after the thread that runs the call.
StreamOf(t) == t

\* The n-th value of the stream seeded with seed, as a number that stands for
\* the float: a function of the seed and of n alone.
Draw(seed, n) == (seed * 131 + n * 7 + 3) % 65521

\* (val + 0.05*n) / 1.05, as a number that stands for the float.
Smooth(val, n) == (val * 31 + n) % 65521

\* A sample of an impulse response: the early reflections summed into it, the
\* smoothed noise added to it (-1: none yet) and the fade factors applied.
IrSample == [er |-> 0, tail |-> -1, fade |-> <<>>]

\* One step of generate_ir on its local variables l and its stream st.
IrStep(l, st) ==
  CASE l.pc = "early" ->
         IF l.k <= Len(l.p.early)
         THEN LET delay_ms == l.p.early[l.k][1]
                  level    == l.p.early[l.k][2]
                  off      == ErOffset(l.sr, delay_ms)
                  ri       == ErRightIndex(off)
              IN  [local |-> IF off < l.N
                             THEN [l EXCEPT !.nl[off + 1].er = @ + level * 100,
                                            !.nr[ri + 1].er = @ + level * 98,
                                            !.k = l.k + 1]
                             ELSE [l EXCEPT !.k = l.k + 1],
                   stream |-> st]
         ELSE [local |-> [l EXCEPT !.pc = "tail", !.i = 0],
               stream |-> [seed |-> IrSeed(l.salt, l.name), n |-> 0]]
    [] l.pc = "tail" ->
         IF l.i < l.N
         THEN LET valL == Smooth(l.valL, Draw(st.seed, st.n))
                  valR == Smooth(l.valR, Draw(st.seed, st.n + 1))
              IN  [local |-> [l EXCEPT !.valL = valL, !.valR = valR,
                                       !.nl[l.i + 1].tail = valL,
                                       !.nr[l.i + 1].tail = valR,
                                       !.i = l.i + 1],
                   stream |-> [st EXCEPT !.n = st.n + 2]]
         ELSE [local |-> [l EXCEPT !.pc = "fade", !.i = 0], stream |-> st]
    [] l.pc = "fade" ->
         IF l.i < IrFadeLength(l.sr)
         THEN IF l.i >= l.N
              THEN [local |-> [l EXCEPT !.pc = "done", !.outcome = "IndexError"],
                    stream |-> st]
              ELSE LET a == [l EXCEPT !.nl[l.i + 1].fade = Append(@, l.i),
                                      !.nr[l.i + 1].fade = Append(@, l.i)]
                   IN  [local |-> [a EXCEPT !.nl[l.N - l.i].fade = Append(@, l.i),
                                            !.nr[l.N - l.i].fade = Append(@, l.i),
                                            !.i = l.i + 1],
                        stream |-> st]
         ELSE [local |-> [l EXCEPT !.pc = "done", !.outcome = "returned"],
               stream |-> st]

\* One step of generate_placeholder_note on its local variables and its stream.
NoteStep(l, st) ==
  CASE l.pc = "seed" ->
         [local |-> [l EXCEPT !.pc = "render", !.i = 0],
          stream |-> [seed |-> NoteBaseSeed + l.midi, n |-> 0]]
    [] l.pc = "render" ->
         IF l.i < l.N
         THEN IF l.i < NoteHammerLength(l.sr)
              THEN [local |-> [l EXCEPT !.y[l.i + 1] =
                                 [tone |-> <<l.midi, l.i>>, noise |-> Draw(st.seed, st.n),
                                  fade |-> <<>>],
                               !.i = l.i + 1],
                    stream |-> [st EXCEPT !.n = st.n + 1]]
              ELSE [local |-> [l EXCEPT !.y[l.i + 1] =
                                 [tone |-> <<l.midi, l.i>>, noise |-> -1, fade |-> <<>>],
                               !.i = l.i + 1],
                    stream |-> st]
         ELSE [local |-> [l EXCEPT !.pc = "fade", !.i = 0], stream |-> st]
    [] l.pc = "fade" ->
         IF l.i < NoteFadeLength(l.sr)
         THEN IF l.i + 1 > l.N
              THEN [local |-> [l EXCEPT !.pc = "done", !.outcome = "IndexError"],
                    stream |-> st]
              ELSE [local |-> [l EXCEPT !.y[l.N - l.i].fade = Append(@, l.i),
                                        !.i = l.i + 1],
                    stream |-> st]
         ELSE [local |-> [l EXCEPT !.pc = "done", !.outcome = "returned"],
               stream |-> st]

\* The local variables of a call as it starts.
CallStart(job, salt) ==
  IF job.kind = "ir"
  THEN LET p == PresetGet(job.name)
           N == IrLength(job.sr, p.seconds)
       IN  [kind |-> "ir", pc |-> "early", name |-> job.name, sr |-> job.sr, salt |-> salt,
            p |-> p, N |-> N, nl |-> [x \in 1 .. N |-> IrSample],
            nr |-> [x \in 1 .. N |-> IrSample], k |-> 1, i |-> 0,
            valL |-> 0, valR |-> 0, outcome |-> "running"]
  ELSE LET N == NoteSamples(job.sr, job.length)
       IN  [kind |-> "note", pc |-> "seed", midi |-> job.midi, sr |-> job.sr,
            N |-> N, y |-> [x \in 1 .. N |-> 0], i |-> 0, outcome |-> "running"]

CallStep(l, st) == IF l.kind = "ir" THEN IrStep(l, st) ELSE NoteStep(l, st)

\* What a finished call hands back: its buffers, or the exception it raised.
CallResult(l) ==
  IF l.outcome # "returned" THEN <<l.outcome>>
  ELSE IF l.kind = "ir" THEN <<l.nl, l.nr>> ELSE <<l.y>>

NoStream == [seed |-> -1, n |-> 0]

threadVars == <<th, streams>>

notThreadVars == <<hashSalt, proc, ir, irOut, note, wr, fs, mn>>

ThreadsInit ==
  /\ th = [t \in Threads |-> [pc |-> "idle"]]
  /\ streams = [x \in {0} \cup Threads |-> NoStream]

\* Thread t enters generate_ir or generate_placeholder_note.
thread_call(t) ==
  /\ th[t].pc = "idle"
  /\ \E job \in ConcJobs :
       th' = [th EXCEPT ![t] = CallStart(job, hashSalt) @@ [job |-> job]]
  /\ UNCHANGED streams
  /\ UNCHANGED notThreadVars

\* Thread t runs one step of its call.
thread_step(t) ==
  /\ th[t].pc \notin {"idle", "done"}
  /\ LET r == CallStep(th[t], streams[StreamOf(t)])
     IN  /\ th' = [th EXCEPT ![t] = r.local]
         /\ streams' = [streams EXCEPT ![StreamOf(t)] = r.stream]
  /\ UNCHANGED notThreadVars

ThreadsNext == \E t \in Threads : thread_call(t) \/ thread_step(t)

InitThreads == ThreadsInit /\ IrUnused /\ NoteUnused /\ WriterUnused /\ MainUnused

SpecThreads == InitThreads /\ [][ThreadsNext]_vars

\* ------------------------------------------------------------------------
\* Properties of concurrent synthesis
\* ------------------------------------------------------------------------

\* The call run from start to end with nothing else running.
RECURSIVE C7_RunAlone(_, _)
C7_RunAlone(l, st) ==
  IF l.pc = "done" THEN CallResult(l)
  ELSE LET r == CallStep(l, st) IN C7_RunAlone(r.local, r.stream)

\* C7: under any interleaving of the steps of two synthesis calls, each call
\* returns exactly what it returns when run alone; two calls of
\* generate_placeholder_note with the same pitch and duration return
\* identical buffers.
C7_InterleavingInvisible ==
  /\ \A t \in Threads :
       th[t].pc = "done" =>
         CallResult(th[t]) = C7_RunAlone(CallStart(th[t].job, hashSalt), NoStream)
  /\ \A t, u \in Threads :
       (th[t].pc = "done" /\ th[u].pc = "done" /\ th[t].job = th[u].job)
       => CallResult(th[t]) = CallResult(th[u])

\* Two impulse responses with different seeds have been generated by the two
\* threads, each having taken its 2*N draws from its own stream.
C7_Witness ==
  /\ th[1].pc = "done" /\ th[2].pc = "done"
  /\ th[1].job.kind = "ir" /\ th[2].job.kind = "ir"
  /\ th[1].outcome = "returned" /\ th[2].outcome = "returned"
  /\ streams[1].n = 2 * th[1].N /\ streams[2].n = 2 * th[2].N
  /\ streams[1].seed # streams[2].seed

\* Both threads are in the middle of their noise loops at once.
C7_Overlap ==
  /\ th[1].pc = "tail" /\ th[2].pc = "tail"
  /\ th[1].i = 5 /\ th[2].i = 3

\* ------------------------------------------------------------------------
\* main: the scan result, the root loop and the manifest
\* ------------------------------------------------------------------------

\* The longest --roots list.
MaxRoots == 2

\* MIDI numbers recognised in source file names, and roots asked for.
SourceMidis == {58, 60, 62}

RootMidis == {57, 60, 61}

\* Sequences without repetition over S: the keys of by_midi in insertion order.
Orderings(S) ==
  { q \in UNION { [1 .. n -> S] : n \in 0 .. Cardinality(S) } :
      \A a, b \in DOMAIN q : a # b => q[a] # q[b] }

RootLists == UNION { [1 .. n -> RootMidis] : n \in 0 .. MaxRoots }

\* --length values, in ticks: below the 20 ms fade window, and the default 6.0 s.
MainLengths == {10, 6144}

Distance(a, b) == IF a >= b THEN a - b ELSE b - a

\* nearest_available(target, available_midis): None (-1) for no keys, else
\* min(..., key=abs(m-target)), the first of the keys at the least distance.
nearest_available(target, keys) ==
  IF Len(keys) = 0 THEN -1
  ELSE keys[CHOOSE a \in DOMAIN keys :
              \A b \in DOMAIN keys :
                \/ Distance(keys[a], target) < Distance(keys[b], target)
                \/ (Distance(keys[a], target) = Distance(keys[b], target) /\ a <= b)]

Elements(q) == { q[a] : a \in DOMAIN q }

\* chosen_src_midi of the loop body: the root itself, else the nearest key,
\* else None (-1).
ChosenSource(midi, keys) ==
  IF midi \in Elements(keys) THEN midi
  ELSE IF Len(keys) > 0 THEN nearest_available(midi, keys)
  ELSE -1

\* generate_placeholder_note(midi, length=min(4.5, length_sec)) raises
\* IndexError when the buffer is shorter than the fade loop.
PlaceholderRaises(length_sec) ==
  NoteSamples(SR, PlaceholderLength(length_sec)) < NoteFadeLength(SR)

\* produced[midi] = entry: a new key is added at the end, an old one keeps its place.
Produce(produced, entry) ==
  IF \E a \in DOMAIN produced : produced[a].midi = entry.midi
  THEN [a \in DOMAIN produced |->
          IF produced[a].midi = entry.midi THEN entry ELSE produced[a]]
  ELSE Append(produced, entry)

\* The subsequence of q whose entries have (ok = TRUE) or have not the status ok.
RECURSIVE StatusList(_, _)
StatusList(q, ok) ==
  IF q = <<>> THEN <<>>
  ELSE IF (Head(q).status = "ok") = ok
       THEN <<Head(q).midi>> \o StatusList(Tail(q), ok)
       ELSE StatusList(Tail(q), ok)

mainVars == <<mn>>

notMainVars == <<hashSalt, proc, ir, irOut, note, wr, fs, th, streams>>

\* The arguments, and the result of the scan: the keys of by_midi.
MainInit ==
  \E keys \in Orderings(SourceMidis), roots \in RootLists,
     gp \in {"yes", "no"}, fmt \in {"mp3", "wav"}, len \in MainLengths :
    mn = [pc |-> "scanned", keys |-> keys, roots |-> roots, generate_placeholders |-> gp,
          format |-> fmt, length |-> len, idx |-> 1, produced |-> <<>>,
          error |-> "none", manifest |-> [written |-> FALSE]]

\* if not available: exit(2) unless placeholders are allowed.
main_no_sources_exit ==
  /\ mn.pc = "scanned"
  /\ Len(mn.keys) = 0 /\ mn.generate_placeholders = "no"
  /\ mn' = [mn EXCEPT !.pc = "exit2"]
  /\ UNCHANGED notMainVars

main_enter_loop ==
  /\ mn.pc = "scanned"
  /\ ~(Len(mn.keys) = 0 /\ mn.generate_placeholders = "no")
  /\ mn' = [mn EXCEPT !.pc = "loop"]
  /\ UNCHANGED notMainVars

\* One iteration of "for midi in required_roots" with a source chosen:
\* ensure_placeholder_or_convert({midi: src}, ...) converts it; a failure of
\* ffmpeg is caught and reported as (False, msg).
main_root_convert ==
  /\ mn.pc = "loop" /\ mn.idx <= Len(mn.roots)
  /\ LET midi == mn.roots[mn.idx]
         chosen == ChosenSource(midi, mn.keys)
     IN  /\ chosen # -1
         /\ \E ok \in BOOLEAN :
              mn' = [mn EXCEPT !.produced = Produce(mn.produced,
                                   [midi |-> midi, status |-> IF ok THEN "ok" ELSE "fail",
                                    how |-> "converted", src |-> chosen]),
                               !.idx = mn.idx + 1]
  /\ UNCHANGED notMainVars

\* One iteration with no source at all: ensure_placeholder_or_convert({}, ...)
\* generates a placeholder.  generate_placeholder_note and write_wav_mono are
\* outside any try: IndexError and OSError leave main; a failed transcode is
\* caught and reported as (False, msg).
main_root_placeholder ==
  /\ mn.pc = "loop" /\ mn.idx <= Len(mn.roots)
  /\ LET midi == mn.roots[mn.idx]
         chosen == ChosenSource(midi, mn.keys)
     IN  /\ chosen = -1
         /\ IF PlaceholderRaises(mn.length)
            THEN mn' = [mn EXCEPT !.pc = "crashed", !.error = "IndexError"]
            ELSE \E result \in {"ok", "fail", "OSError"} :
                   /\ result = "fail" => mn.format = "mp3"
                   /\ mn' = IF result = "OSError"
                            THEN [mn EXCEPT !.pc = "crashed", !.error = "OSError"]
                            ELSE [mn EXCEPT !.produced = Produce(mn.produced,
                                              [midi |-> midi, status |-> result,
                                               how |-> "placeholder", src |-> -1]),
                                            !.idx = mn.idx + 1]
  /\ UNCHANGED notMainVars

\* The manifest: generated_roots sorted, failed_roots in the order of produced.
main_manifest ==
  /\ mn.pc = "loop" /\ mn.idx > Len(mn.roots)
  /\ mn' = [mn EXCEPT !.pc = "exit",
                      !.manifest = [written |-> TRUE,
                                    generated_roots |->
                                      SortSeq(StatusList(mn.produced, TRUE), <),
                                    failed_roots |-> StatusList(mn.produced, FALSE)]]
  /\ UNCHANGED notMainVars

MainNext ==
  \/ main_no_sources_exit
  \/ main_enter_loop
  \/ main_root_convert
  \/ main_root_placeholder
  \/ main_manifest

InitMain == MainInit /\ IrUnused /\ NoteUnused /\ WriterUnused /\ ThreadsUnused

SpecMain == InitMain /\ [][MainNext]_vars

\* ------------------------------------------------------------------------
\* Properties of main
\* ------------------------------------------------------------------------

C10_Count(q, x) == Cardinality({ a \in DOMAIN q : q[a] = x })

\* The choice of the source for every root rendered so far: the root's own
\* source when there is one, else a source at the least distance, and a
\* placeholder only when no source was recognised.
C10_SourceChoice ==
  mn.pc \in {"loop", "exit", "crashed"} =>
    \A a \in DOMAIN mn.produced :
      LET e == mn.produced[a]
      IN  /\ e.midi \in Elements(mn.keys) => (e.how = "converted" /\ e.src = e.midi)
          /\ (e.midi \notin Elements(mn.keys) /\ Len(mn.keys) > 0) =>
               /\ e.how = "converted" /\ e.src \in Elements(mn.keys)
               /\ \A m \in Elements(mn.keys) : Distance(e.src, e.midi) <= Distance(m, e.midi)
          /\ e.how = "placeholder" <=> Len(mn.keys) = 0

\* C10: in the root loop the exact source is converted when there is one,
\* else a nearest one, a placeholder only when no source was recognised; and
\* when main has ended (I/O errors of the disk set aside), every requested
\* root is in exactly one of generated_roots and failed_roots.
C10_RootsChosenAndAccounted ==
  /\ C10_SourceChoice
  /\ (mn.pc = "exit" \/ (mn.pc = "crashed" /\ mn.error = "IndexError")) =>
       /\ mn.manifest.written
       /\ \A a \in DOMAIN mn.roots :
            C10_Count(mn.manifest.generated_roots, mn.roots[a])
              + C10_Count(mn.manifest.failed_roots, mn.roots[a]) = 1

\* What does hold: when main reaches the manifest, every requested root is in
\* exactly one of the two lists.
C10_AccountedWhenManifestWritten ==
  mn.pc = "exit" =>
    /\ mn.manifest.written
    /\ \A a \in DOMAIN mn.roots :
         C10_Count(mn.manifest.generated_roots, mn.roots[a])
           + C10_Count(mn.manifest.failed_roots, mn.roots[a]) = 1

\* ------------------------------------------------------------------------
\* Properties of generate_ir
\* ------------------------------------------------------------------------

\* C1: for a name that is not a preset, generate_ir returns buffers identical
\* to those of generate_ir("medium-room") (compared within one process run,
\* at the default sample rate).
C1_UnknownNameSameAsMediumRoom ==
  \A i, j \in DOMAIN irOut :
    (/\ irOut[i].name \notin PresetNames
     /\ irOut[j].name = "medium-room"
     /\ irOut[i].sr = SR /\ irOut[j].sr = SR
     /\ irOut[i].proc = irOut[j].proc)
    => (irOut[i].L = irOut[j].L /\ irOut[i].R = irOut[j].R)

\* What does hold for an unknown name: the length, the early reflections, the
\* envelope parameters and the fades are those of medium-room; the seed is not.
C1_AllButSeedAgree ==
  \A i, j \in DOMAIN irOut :
    (/\ irOut[i].name \notin PresetNames
     /\ irOut[j].name = "medium-room"
     /\ irOut[i].sr = irOut[j].sr
     /\ irOut[i].proc = irOut[j].proc)
    => (/\ irOut[i].L.n = irOut[j].L.n
        /\ irOut[i].L.er = irOut[j].L.er
        /\ irOut[i].R.er = irOut[j].R.er
        /\ irOut[i].L.tail.decay = irOut[j].L.tail.decay
        /\ irOut[i].L.tail.hf = irOut[j].L.tail.hf
        /\ irOut[i].L.tail.seed # irOut[j].L.tail.seed)

\* C2: two executions of generate_ir with the same preset name, in the same or
\* in two separate process runs, return bit-identical left and right buffers.
C2_SameNameSameBuffers ==
  \A i, j \in DOMAIN irOut :
    (irOut[i].name = irOut[j].name /\ irOut[i].sr = SR /\ irOut[j].sr = SR)
    => (irOut[i].L = irOut[j].L /\ irOut[i].R = irOut[j].R)

\* What does hold: within one process run the buffers are identical.
C2_SameProcessSameBuffers ==
  \A i, j \in DOMAIN irOut :
    (irOut[i].name = irOut[j].name /\ irOut[i].sr = irOut[j].sr
       /\ irOut[i].proc = irOut[j].proc)
    => (irOut[i].L = irOut[j].L /\ irOut[i].R = irOut[j].R)

\* The total duration of each preset, in milliseconds, as the claim lists them.
C8_DurationMs(name) ==
  CASE name = "studio" -> 900 [] name = "medium-room" -> 1500 [] name = "hall" -> 2600
    [] name = "cathedral" -> 4200 [] OTHER -> 1800

\* C8: for each of the five presets generate_ir returns a left and a right
\* buffer of the same length, round(sr * total duration); hence the hall buffer
\* is strictly longer than the studio buffer.
C8_PresetLengths ==
  /\ \A i \in DOMAIN irOut :
       irOut[i].name \in PresetNames =>
         /\ irOut[i].L.n = irOut[i].R.n
         /\ irOut[i].L.n = PyRound(irOut[i].sr * C8_DurationMs(irOut[i].name), 1000)
  /\ \A i, j \in DOMAIN irOut :
       (irOut[i].name = "hall" /\ irOut[j].name = "studio" /\ irOut[i].sr = irOut[j].sr)
       => irOut[i].L.n > irOut[j].L.n

\* A hall and a studio response have both been returned at 44100 Hz.
C8_Witness ==
  \E i, j \in DOMAIN irOut :
    /\ irOut[i].name = "hall" /\ irOut[i].sr = SR /\ irOut[i].L.n = 114660
    /\ irOut[j].name = "studio" /\ irOut[j].sr = SR /\ irOut[j].R.n = 39690

\* The sum of the levels, scaled by gain, of the pairs among the first k of
\* early whose index (idx applied to the pair's offset) is j.
RECURSIVE C9_Sum(_, _, _, _, _, _, _)
C9_Sum(early, k, sr, N, j, gain, roundIt) ==
  IF k = 0 THEN 0
  ELSE LET off == IF roundIt THEN PyRound(sr * early[k][1], 1000)
                  ELSE (sr * early[k][1]) \div 1000
           idx == IF gain = 100 THEN off ELSE IF roundIt THEN off - 1 ELSE Max(0, off - 1)
       IN  C9_Sum(early, k - 1, sr, N, j, gain, roundIt)
             + (IF off < N /\ idx = j THEN early[k][2] * gain ELSE 0)

\* The indices the first k pairs contribute to.
C9_Indices(early, k, sr, N, gain, roundIt) ==
  { IF gain = 100 THEN o ELSE IF roundIt THEN o - 1 ELSE Max(0, o - 1) :
      o \in { IF roundIt THEN PyRound(sr * early[m][1], 1000) ELSE (sr * early[m][1]) \div 1000 :
                m \in { x \in 1 .. k : (IF roundIt THEN PyRound(sr * early[x][1], 1000)
                                        ELSE (sr * early[x][1]) \div 1000) < N } } }

C9_Expected(early, k, sr, N, gain, roundIt) ==
  [j \in C9_Indices(early, k, sr, N, gain, roundIt) |-> C9_Sum(early, k, sr, N, j, gain, roundIt)]

\* C9 as stated: after the early-reflection loop, at 44100 Hz, the left buffer
\* holds level at round(44100*delayMs/1000) and the right buffer level*0.98 at
\* that index minus one, summed where indices collide, and nothing anywhere
\* else.
C9_EarlyAtRoundedIndex ==
  (ir.pc = "early" /\ ir.k > Len(ir.p.early) /\ ir.sr = SR) =>
    /\ ir.nl.at = C9_Expected(ir.p.early, Len(ir.p.early), ir.sr, ir.N, 100, TRUE)
    /\ ir.nr.at = C9_Expected(ir.p.early, Len(ir.p.early), ir.sr, ir.N, 98, TRUE)

\* C9 amended: throughout the early-reflection loop, the left buffer holds, for
\* the pairs processed so far, level at the truncated index
\* int(sr*delayMs/1000) (when below N) and the right buffer level*0.98 at
\* max(0, that index - 1), summed where indices collide, and zero elsewhere.
C9_EarlyAtTruncatedIndex ==
  ir.pc = "early" =>
    /\ ir.nl.n = ir.N /\ ir.nr.n = ir.N
    /\ ir.nl.at = C9_Expected(ir.p.early, ir.k - 1, ir.sr, ir.N, 100, FALSE)
    /\ ir.nr.at = C9_Expected(ir.p.early, ir.k - 1, ir.sr, ir.N, 98, FALSE)

\* The cathedral loop has finished at 44100 Hz: 97 ms lands on index 4277
\* (44100 * 0.097 = 4277.7) on the left and on 4276 on the right.
C9_Witness ==
  /\ ir.pc = "early" /\ ir.name = "cathedral" /\ ir.sr = SR
  /\ ir.k > Len(ir.p.early)
  /\ ValueAt(ir.nl, 4277) = 2500 /\ ValueAt(ir.nr, 4276) = 2450
  /\ ValueAt(ir.nl, 4278) = 0

\* Two reflections of studio collide on the right channel at index 0 when the
\* rate is low, and their levels add up.
C9_CollisionReached ==
  /\ ir.pc = "early" /\ ir.name = "studio" /\ ir.sr = LowRate
  /\ ir.k > Len(ir.p.early)
  /\ ValueAt(ir.nr, 0) = 60 * 98 + 40 * 98

====
